---- MODULE Spec2Model ----
(***************************************************************************)
(* Model of avi.py: a seeded generator of synthetic record-access events.  *)
(* The script builds a staff roster, samples NUM_ROWS events, optionally   *)
(* lets scenario injectors A-E act on a DataFrame, truncates the global    *)
(* DataFrame to NUM_ROWS rows and writes it to OUTPUT_PATH.                *)
(*                                                                         *)
(* The module `random` is modelled as a seeded generator: random.seed sets *)
(* the generator state, every random.* call advances it once and derives   *)
(* its result from the new state.  A run is therefore a function of the    *)
(* seed, the configuration and the injector calls, as in the script.       *)
(***************************************************************************)
EXTENDS Integers, Sequences, FiniteSets, TLC

VARIABLES
    SEED,        \* configuration: seed handed to random.seed
    NUM_ROWS,    \* configuration: bulk row count
    DAYS_SPAN,   \* configuration: width of the date window, in days
    aliased,     \* TRUE: injectors are handed the global df; FALSE: another frame
    pc,          \* position of the script: "gen", "inject", "done", "failed"
    rng,         \* state of the module-level random generator
    rows,        \* the list `rows` filled by the generation loop
    df,          \* the global DataFrame `df`
    caller_df,   \* a DataFrame other than the global one, passed as df_
    calls,       \* log of the injector calls made so far
    written,     \* TRUE once to_csv has written OUTPUT_PATH
    output       \* the rows written to OUTPUT_PATH

vars == <<SEED, NUM_ROWS, DAYS_SPAN, aliased, pc, rng, rows, df, caller_df,
          calls, written, output>>

-----------------------------------------------------------------------------
(* Bounds of the model *)

MaxSeed == 59
MaxRows == 2
MaxCalls == 2
MaxN == 2

(* The date windows tried: two invalid ones, a one-day one, the script's. *)
DaysSpanChoices == {-1, 0, 1, 30}

-----------------------------------------------------------------------------
(* 1) Configuration *)

\* datetime(2025, 6, 1) as [proleptic ordinal day, minute of the day]
StartOrdinal == 739403
START_DATE == [ord |-> StartOrdinal, min |-> 0]

DoctorCount == 86
NurseCount == 166
AdminCount == 15
ReceptionistCount == 21
PharmacistCount == 12

\* [x] * n : the empty list when n <= 0
Repeat(x, n) == [k \in 1..n |-> x]

roles ==
    Repeat("Doctor", DoctorCount) \o
    Repeat("Nurse", NurseCount) \o
    Repeat("Admin", AdminCount) \o
    Repeat("Receptionist", ReceptionistCount) \o
    Repeat("Pharmacist", PharmacistCount)

Digits == <<"0", "1", "2", "3", "4", "5", "6", "7", "8", "9">>

\* str(n) for n >= 0
RECURSIVE Str(_)
Str(n) == IF n < 10 THEN Digits[n + 1] ELSE Str(n \div 10) \o Digits[(n % 10) + 1]

\* s.zfill(width): pads on the left, never truncates
RECURSIVE ZFill(_, _)
ZFill(s, width) == IF Len(s) >= width THEN s ELSE ZFill("0" \o s, width)

users == [i \in 1..Len(roles) |-> "U" \o ZFill(Str(i), 3)]

\* dict(zip(users, roles)): the last pair with a given key wins
user_role_map ==
    [u \in {users[i] : i \in DOMAIN users} |->
        roles[CHOOSE i \in DOMAIN users :
                 users[i] = u /\ \A j \in DOMAIN users : j > i => users[j] # u]]

role_department ==
    [Doctor |-> "Clinical", Nurse |-> "Clinical", Pharmacist |-> "Pharmacy",
     Admin |-> "Admin", Receptionist |-> "Admin"]

role_risk_weight ==
    [Doctor |-> 2, Nurse |-> 3, Pharmacist |-> 3, Admin |-> 5, Receptionist |-> 4]

actions == <<"View", "Edit", "Export">>
action_weights == <<75, 20, 5>>              \* 0.75, 0.20, 0.05 in hundredths

sensitivities == <<"Normal", "High">>
sensitivity_weights == <<80, 20>>            \* 0.80, 0.20 in hundredths

locations == <<"Onsite", "Remote">>
location_weights == <<75, 25>>               \* 0.75, 0.25 in hundredths

-----------------------------------------------------------------------------
(* The module-level random generator *)

\* random.seed(seed): the generator state the seed selects
RandSeed(seed) == (seed * 7919 + 1) % 65537

\* one step of the generator, made by every random.* call
RandNext(r) == (r * 75 + 74) % 65537

\* random.randint(a, b) on generator state r; the caller checks a <= b
RandInt(r, a, b) == a + (r % (b - a + 1))

\* random.choice(seq) on generator state r
Choice(r, seq) == seq[(r % Len(seq)) + 1]

RECURSIVE SumTo(_, _)
SumTo(w, k) == IF k = 0 THEN 0 ELSE SumTo(w, k - 1) + w[k]

\* random.choices(population, weights=w, k=1)[0] on generator state r:
\* the first element whose cumulative weight exceeds the drawn point
Choices(r, population, w) ==
    LET point == r % SumTo(w, Len(w))
    IN  population[CHOOSE i \in DOMAIN population :
                      /\ point < SumTo(w, i)
                      /\ \A j \in DOMAIN population : j < i => point >= SumTo(w, j)]

-----------------------------------------------------------------------------
(* datetime *)

DayNames == <<"Monday", "Tuesday", "Wednesday", "Thursday", "Friday",
              "Saturday", "Sunday">>

\* dt + timedelta(minutes=m), m >= 0
AddMinutes(dt, m) ==
    [ord |-> dt.ord + ((dt.min + m) \div 1440), min |-> (dt.min + m) % 1440]

\* dt.strftime("%A")
DayName(dt) == DayNames[((dt.ord + 6) % 7) + 1]

\* dt.hour
HourOf(dt) == dt.min \div 60

\* dt.replace(hour=h, minute=0, second=0, microsecond=0)
ReplaceHour(dt, h) == [ord |-> dt.ord, min |-> h * 60]

\* variant: the search steps to the next day before it looks at one
RECURSIVE FirstDayNamed_SkipsStart(_, _)
FirstDayNamed_SkipsStart(base, name) ==
    LET next == AddMinutes(base, 1440)
    IN  IF DayName(next) = name THEN next ELSE FirstDayNamed_SkipsStart(next, name)

\* base = START_DATE; while base.strftime("%A") != name: base += timedelta(days=1)
RECURSIVE FirstDayNamed(_, _)
FirstDayNamed(base, name) ==
    IF DayName(base) = name THEN base ELSE FirstDayNamed(AddMinutes(base, 1440), name)

-----------------------------------------------------------------------------
(* 2) Helper functions *)

\* variant: Saturday is not counted as weekend
is_weekend_SundayOnly(day_name) == IF day_name \in {"Sunday"} THEN 1 ELSE 0

is_weekend(day_name) == IF day_name \in {"Saturday", "Sunday"} THEN 1 ELSE 0

\* variant: the working day ends at 18:00 instead of 18:59
is_off_hours_From18(hour) == IF hour < 8 \/ hour >= 18 THEN 1 ELSE 0

is_off_hours(hour) == IF hour < 8 \/ hour > 18 THEN 1 ELSE 0

\* variant: the Export penalty is left out
compute_risk_score_NoExport(role, action, sensitivity, off_hours_flag) ==
    role_risk_weight[role] * 10
    + (IF sensitivity = "High" THEN 30 ELSE 0)
    + (IF off_hours_flag = 1 THEN 20 ELSE 0)

compute_risk_score(role, action, sensitivity, off_hours_flag) ==
    role_risk_weight[role] * 10
    + (IF sensitivity = "High" THEN 30 ELSE 0)
    + (IF action = "Export" THEN 20 ELSE 0)
    + (IF off_hours_flag = 1 THEN 20 ELSE 0)

\* f"A{str(k).zfill(5)}"
AccessIdOf(k) == "A" \o ZFill(Str(k), 5)

\* f"P{n}"
PatientIdOf(n) == "P" \o Str(n)

\* the inclusive range random.randint draws AccessCountPerDay from, per role
AccessCountRange(role) ==
    IF role = "Doctor" THEN <<40, 90>>
    ELSE IF role = "Nurse" THEN <<25, 60>>
    ELSE IF role = "Pharmacist" THEN <<10, 30>>
    ELSE IF role = "Admin" THEN <<5, 20>>
    ELSE <<5, 15>>

\* random.randint(0, days_span * 24 * 60 - 1) raises ValueError on an empty range
TimestampRaises(days_span) == days_span * 24 * 60 - 1 < 0

\* random_timestamp(start, days_span) on generator state r
random_timestamp(r, start, days_span) ==
    AddMinutes(start, RandInt(r, 0, days_span * 24 * 60 - 1))

-----------------------------------------------------------------------------
(* 3) Generate dataset *)

Init ==
    /\ SEED \in 0..MaxSeed
    /\ NUM_ROWS \in 0..MaxRows
    /\ DAYS_SPAN \in DaysSpanChoices
    /\ aliased \in BOOLEAN
    /\ pc = "gen"
    /\ rng = RandSeed(SEED)
    /\ rows = <<>>
    /\ df = <<>>
    /\ caller_df = <<>>
    /\ calls = <<>>
    /\ written = FALSE
    /\ output = <<>>

\* one iteration of `for i in range(NUM_ROWS)`; i = Len(rows)
SampledRow(r0, i) ==
    LET r1 == RandNext(r0)
        user == Choice(r1, users)
        role == user_role_map[user]
        dept == role_department[role]
        r2 == RandNext(r1)
        ts == random_timestamp(r2, START_DATE, DAYS_SPAN)
        hour == HourOf(ts)
        day_name == DayName(ts)
        weekend_flag == is_weekend(day_name)
        off_hours_flag == is_off_hours(hour)
        r3 == RandNext(r2)
        action == Choices(r3, actions, action_weights)
        r4 == RandNext(r3)
        sensitivity == Choices(r4, sensitivities, sensitivity_weights)
        r5 == RandNext(r4)
        location == Choices(r5, locations, location_weights)
        r6 == RandNext(r5)
        range == AccessCountRange(role)
        access_count_per_day == RandInt(r6, range[1], range[2])
        risk_score == compute_risk_score(role, action, sensitivity, off_hours_flag)
        r7 == RandNext(r6)
    IN  [rng |-> r7,
         row |-> [AccessID |-> AccessIdOf(i + 1),
                  UserID |-> user,
                  UserRole |-> role,
                  Department |-> dept,
                  Timestamp |-> ts,
                  DayOfWeek |-> day_name,
                  HourOfDay |-> hour,
                  PatientID |-> PatientIdOf(RandInt(r7, 100, 999)),
                  ActionType |-> action,
                  DataSensitivity |-> sensitivity,
                  AccessLocation |-> location,
                  AccessCountPerDay |-> access_count_per_day,
                  IsOffHours |-> off_hours_flag,
                  IsWeekend |-> weekend_flag,
                  RoleRiskWeight |-> role_risk_weight[role],
                  AccessRiskScore |-> risk_score]]

GenerateRow ==
    /\ pc = "gen"
    /\ Len(rows) < NUM_ROWS
    /\ IF TimestampRaises(DAYS_SPAN)
       THEN \* random.choice is consumed, then randint raises ValueError
            /\ pc' = "failed"
            /\ rng' = RandNext(rng)
            /\ UNCHANGED rows
       ELSE LET s == SampledRow(rng, Len(rows))
            IN  /\ rows' = Append(rows, s.row)
                /\ rng' = s.rng
                /\ UNCHANGED pc
    /\ UNCHANGED <<SEED, NUM_ROWS, DAYS_SPAN, aliased, df, caller_df, calls,
                   written, output>>

\* df = pd.DataFrame(rows); the caller's own frame starts as a copy of it
BuildDataFrame ==
    /\ pc = "gen"
    /\ Len(rows) >= NUM_ROWS
    /\ df' = rows
    /\ caller_df' = IF aliased THEN <<>> ELSE rows
    /\ pc' = "inject"
    /\ UNCHANGED <<SEED, NUM_ROWS, DAYS_SPAN, aliased, rng, rows, calls,
                   written, output>>

-----------------------------------------------------------------------------
(* 4) Scenario injectors A-E.  Each operator gives the outcome of one call *)
(* on frame df_ from generator state r0: whether it returned normally, the *)
(* generator state it leaves and the frame it leaves.                      *)

\* variant: the role filter is dropped
UsersWithRole_Unfiltered(wanted) == users

\* [u for u in users if user_role_map[u] in wanted]
UsersWithRole(wanted) == SelectSeq(users, LAMBDA u : user_role_map[u] \in wanted)

\* df_.loc[len(df_)] = row raises ValueError on a frame without columns,
\* which is the frame pd.DataFrame([]) builds; otherwise it appends the row
LocSetRaises(df_) == Len(df_) = 0

\* Scenario A: Admin at 03:00 Tuesday
inject_scenario_a(r0, df_) ==
    LET admin_users == UsersWithRole({"Admin"})
        r1 == RandNext(r0)
        u == Choice(r1, admin_users)
        ts == ReplaceHour(FirstDayNamed(START_DATE, "Tuesday"), 3)
        r2 == RandNext(r1)
        row == [AccessID |-> AccessIdOf(Len(df_) + 1),
                UserID |-> u,
                UserRole |-> "Admin",
                Department |-> "Admin",
                Timestamp |-> ts,
                DayOfWeek |-> "Tuesday",
                HourOfDay |-> 3,
                PatientID |-> PatientIdOf(RandInt(r2, 100, 999)),
                ActionType |-> "View",
                DataSensitivity |-> "Normal",
                AccessLocation |-> "Remote",
                AccessCountPerDay |-> 10,
                IsOffHours |-> 1,
                IsWeekend |-> 0,
                RoleRiskWeight |-> role_risk_weight["Admin"],
                AccessRiskScore |-> compute_risk_score("Admin", "View", "Normal", 1)]
    IN  IF LocSetRaises(df_)
        THEN [ok |-> FALSE, rng |-> r2, frame |-> df_]
        ELSE [ok |-> TRUE, rng |-> r2, frame |-> Append(df_, row)]

\* Scenario B: the receptionist random.choice picks on generator state r0
ScenarioBUser(r0) == Choice(RandNext(r0), UsersWithRole({"Receptionist"}))

\* index of df_[df_["UserID"] == u]
RowsOfUser(df_, u) == {k \in DOMAIN df_ : df_[k].UserID = u}

\* variant: the row is taken from the whole frame, not from the rows of the
\* chosen receptionist
inject_scenario_b_AnyUser(r0, df_, idx) ==
    LET r1 == RandNext(r0)
    IN  IF Len(df_) = 0
        THEN [ok |-> FALSE, rng |-> r1, frame |-> df_]
        ELSE [ok |-> TRUE, rng |-> r1,
              frame |-> [df_ EXCEPT ![1].AccessCountPerDay = 500]]

\* Scenario B: set AccessCountPerDay of the row .sample(1, random_state=SEED)
\* picked among the rows of the chosen receptionist; idx is that row.
\* df_["UserID"] raises KeyError on a frame without columns, and sample
\* raises ValueError when the receptionist has no row.
inject_scenario_b(r0, df_, idx) ==
    LET r1 == RandNext(r0)
    IN  IF Len(df_) = 0 \/ idx \notin RowsOfUser(df_, ScenarioBUser(r0))
        THEN [ok |-> FALSE, rng |-> r1, frame |-> df_]
        ELSE [ok |-> TRUE, rng |-> r1,
              frame |-> [df_ EXCEPT ![idx].AccessCountPerDay = 500]]

\* the body of `for _ in range(n)` in scenario C, k iterations left
RECURSIVE ScenarioCLoop(_, _, _, _)
ScenarioCLoop(r0, df_, u, k) ==
    IF k <= 0 THEN [ok |-> TRUE, rng |-> r0, frame |-> df_]
    ELSE IF TimestampRaises(DAYS_SPAN)
    THEN [ok |-> FALSE, rng |-> r0, frame |-> df_]
    ELSE
    LET r1 == RandNext(r0)
        ts == random_timestamp(r1, START_DATE, DAYS_SPAN)
        hour == HourOf(ts)
        day_name == DayName(ts)
        off_hours_flag == is_off_hours(hour)
        weekend_flag == is_weekend(day_name)
        r2 == RandNext(r1)
        action == Choices(r2, actions, action_weights)
        r3 == RandNext(r2)
        r4 == RandNext(r3)
        row == [AccessID |-> AccessIdOf(Len(df_) + 1),
                UserID |-> u,
                UserRole |-> user_role_map[u],
                Department |-> "Admin",
                Timestamp |-> ts,
                DayOfWeek |-> day_name,
                HourOfDay |-> hour,
                PatientID |-> PatientIdOf(RandInt(r3, 100, 999)),
                ActionType |-> action,
                DataSensitivity |-> "High",
                AccessLocation |-> "Remote",
                AccessCountPerDay |-> RandInt(r4, 5, 20),
                IsOffHours |-> off_hours_flag,
                IsWeekend |-> weekend_flag,
                RoleRiskWeight |-> role_risk_weight[user_role_map[u]],
                AccessRiskScore |->
                    compute_risk_score(user_role_map[u], action, "High", off_hours_flag)]
    IN  IF LocSetRaises(df_)
        THEN [ok |-> FALSE, rng |-> r4, frame |-> df_]
        ELSE ScenarioCLoop(r4, Append(df_, row), u, k - 1)

\* Scenario C: Non-clinical user with many High sensitivity accesses
inject_scenario_c(r0, df_, n) ==
    LET non_clin == UsersWithRole({"Admin", "Receptionist"})
        r1 == RandNext(r0)
        u == Choice(r1, non_clin)
    IN  ScenarioCLoop(r1, df_, u, n)

\* Scenario D: Sunday afternoon export; the id is taken from the global df
inject_scenario_d(r0, df_, global_df) ==
    LET r1 == RandNext(r0)
        u == Choice(r1, users)
        ts == ReplaceHour(FirstDayNamed(START_DATE, "Sunday"), 15)
        role == user_role_map[u]
        r2 == RandNext(r1)
        row == [AccessID |-> AccessIdOf(Len(global_df) + 1),
                UserID |-> u,
                UserRole |-> role,
                Department |-> role_department[role],
                Timestamp |-> ts,
                DayOfWeek |-> "Sunday",
                HourOfDay |-> 15,
                PatientID |-> PatientIdOf(RandInt(r2, 100, 999)),
                ActionType |-> "Export",
                DataSensitivity |-> "High",
                AccessLocation |-> "Remote",
                AccessCountPerDay |-> 20,
                IsOffHours |-> 0,
                IsWeekend |-> 1,
                RoleRiskWeight |-> role_risk_weight[role],
                AccessRiskScore |-> compute_risk_score(role, "Export", "High", 0)]
    IN  IF LocSetRaises(df_)
        THEN [ok |-> FALSE, rng |-> r2, frame |-> df_]
        ELSE [ok |-> TRUE, rng |-> r2, frame |-> Append(df_, row)]

\* Scenario E: Normal doctor flow; the id is taken from the global df
inject_scenario_e(r0, df_, global_df) ==
    LET doc_users == UsersWithRole({"Doctor"})
        r1 == RandNext(r0)
        u == Choice(r1, doc_users)
        ts == ReplaceHour(START_DATE, 10)
        r2 == RandNext(r1)
        row == [AccessID |-> AccessIdOf(Len(global_df) + 1),
                UserID |-> u,
                UserRole |-> "Doctor",
                Department |-> "Clinical",
                Timestamp |-> ts,
                DayOfWeek |-> DayName(ts),
                HourOfDay |-> 10,
                PatientID |-> PatientIdOf(RandInt(r2, 100, 999)),
                ActionType |-> "View",
                DataSensitivity |-> "Normal",
                AccessLocation |-> "Onsite",
                AccessCountPerDay |-> 50,
                IsOffHours |-> 0,
                IsWeekend |-> is_weekend(DayName(ts)),
                RoleRiskWeight |-> role_risk_weight["Doctor"],
                AccessRiskScore |-> compute_risk_score("Doctor", "View", "Normal", 0)]
    IN  IF LocSetRaises(df_)
        THEN [ok |-> FALSE, rng |-> r2, frame |-> df_]
        ELSE [ok |-> TRUE, rng |-> r2, frame |-> Append(df_, row)]

\* the frame the injectors are handed as df_
Target == IF aliased THEN df ELSE caller_df

\* an injector may be called between the DataFrame's construction and the save
CanInvoke == pc = "inject" /\ Len(calls) < MaxCalls

\* the effect of one injector call with outcome res: the frame it was handed
\* is left as the call left it; an exception ends the script before the save
Invoke(name, n, res) ==
    /\ calls' = Append(calls, [name |-> name, n |-> n])
    /\ rng' = res.rng
    /\ pc' = IF res.ok THEN "inject" ELSE "failed"
    /\ IF aliased
       THEN df' = res.frame /\ UNCHANGED caller_df
       ELSE caller_df' = res.frame /\ UNCHANGED df
    /\ UNCHANGED <<SEED, NUM_ROWS, DAYS_SPAN, aliased, rows, written, output>>

InjectA ==
    /\ CanInvoke
    /\ Invoke("A", 1, inject_scenario_a(rng, Target))

InjectB ==
    /\ CanInvoke
    /\ LET candidates == RowsOfUser(Target, ScenarioBUser(rng))
       IN  \E idx \in (IF candidates = {} THEN {0} ELSE candidates) :
               Invoke("B", 0, inject_scenario_b(rng, Target, idx))

InjectC ==
    /\ CanInvoke
    /\ \E n \in 0..MaxN : Invoke("C", n, inject_scenario_c(rng, Target, n))

InjectD ==
    /\ CanInvoke
    /\ Invoke("D", 1, inject_scenario_d(rng, Target, df))

InjectE ==
    /\ CanInvoke
    /\ Invoke("E", 1, inject_scenario_e(rng, Target, df))

-----------------------------------------------------------------------------
(* 5) Save *)

\* frame.head(n), n >= 0
head(frame, n) == SubSeq(frame, 1, IF n < Len(frame) THEN n ELSE Len(frame))

\* df = df.head(NUM_ROWS); df.to_csv(OUTPUT_PATH, index=False)
Save ==
    /\ pc = "inject"
    /\ df' = head(df, NUM_ROWS)
    /\ output' = head(df, NUM_ROWS)
    /\ written' = TRUE
    /\ pc' = "done"
    /\ UNCHANGED <<SEED, NUM_ROWS, DAYS_SPAN, aliased, rng, rows, caller_df, calls>>

Next ==
    \/ GenerateRow
    \/ BuildDataFrame
    \/ InjectA
    \/ InjectB
    \/ InjectC
    \/ InjectD
    \/ InjectE
    \/ Save

Spec == Init /\ [][Next]_vars
-----------------------------------------------------------------------------
(* Properties *)

RowsIn(frame) == {frame[k] : k \in DOMAIN frame}

\* every row the run holds: in the list, in either frame, in the output file
AllRows == RowsIn(rows) \cup RowsIn(df) \cup RowsIn(caller_df) \cup RowsIn(output)

\* the rows of the frame the injectors act on that no bulk iteration produced
InjectedRows == {Target[k] : k \in {j \in DOMAIN Target : j > NUM_ROWS}}

LastCall == calls[Len(calls)]

\* an injector named `name` was the last call and returned normally
JustInjected(name) == pc = "inject" /\ calls # <<>> /\ LastCall.name = name

\* C1: in every row, sampled or injected, AccessRiskScore is ten times the
\* risk weight of the row's role, plus 30 for High sensitivity, plus 20 for
\* an Export, plus 20 when the row's off-hours flag is 1.
C1_RiskScoreFormula ==
    \A row \in AllRows :
        row.AccessRiskScore =
            role_risk_weight[row.UserRole] * 10
            + 30 * (IF row.DataSensitivity = "High" THEN 1 ELSE 0)
            + 20 * (IF row.ActionType = "Export" THEN 1 ELSE 0)
            + 20 * (IF row.IsOffHours = 1 THEN 1 ELSE 0)

\* an injected row and a sampled row that both carry every penalty
C1_Witness ==
    /\ \E row \in InjectedRows :
          row.ActionType = "Export" /\ row.IsOffHours = 1 /\ row.DataSensitivity = "High"
    /\ \E row \in RowsIn(rows) :
          row.ActionType = "Export" \/ row.DataSensitivity = "High"

\* C2: the file holds NUM_ROWS rows plus the rows the injectors added to the
\* saved frame (1 for each of A, D, E, n for C, none for B).
RECURSIVE RowsAdded(_)
RowsAdded(log) ==
    IF log = <<>> THEN 0
    ELSE (IF log[1].name = "B" THEN 0 ELSE log[1].n) + RowsAdded(Tail(log))

C2_OutputRowCount ==
    pc = "done" => Len(output) = NUM_ROWS + (IF aliased THEN RowsAdded(calls) ELSE 0)

\* C3: in every row IsOffHours is 1 exactly when HourOfDay is below 8 or
\* above 18 (so hour 18 gives 0 and hour 19 gives 1), and 0 otherwise.
C3_OffHoursFlag ==
    \A row \in AllRows :
        /\ row.IsOffHours \in {0, 1}
        /\ row.IsOffHours = 1 <=> (row.HourOfDay < 8 \/ row.HourOfDay > 18)
        /\ row.HourOfDay = 18 => row.IsOffHours = 0
        /\ row.HourOfDay = 19 => row.IsOffHours = 1

\* rows on both sides of the evening boundary next to scenario A's literal row
C3_Witness ==
    /\ \E row \in AllRows : row.HourOfDay = 18
    /\ \E row \in AllRows : row.HourOfDay = 19
    /\ \E row \in InjectedRows : row.HourOfDay = 3 /\ row.IsOffHours = 1

\* 2025-06-01, ordinal 739403, is a Sunday: the weekday of a timestamp
\* counted from that anchor
WeekdayFromAnchor(ts) ==
    <<"Sunday", "Monday", "Tuesday", "Wednesday", "Thursday", "Friday",
      "Saturday">>[((ts.ord - 739403) % 7) + 1]

\* C4: in every row IsWeekend is 1 exactly when DayOfWeek is Saturday or
\* Sunday, and DayOfWeek is the weekday of the row's Timestamp.
C4_WeekendFlag ==
    \A row \in AllRows :
        /\ row.IsWeekend \in {0, 1}
        /\ row.IsWeekend = 1 <=> row.DayOfWeek \in {"Saturday", "Sunday"}
        /\ row.DayOfWeek = WeekdayFromAnchor(row.Timestamp)

\* the literal rows of A (Tuesday) and E (START_DATE) side by side
C4_Witness ==
    /\ pc = "inject"
    /\ {calls[k].name : k \in DOMAIN calls} = {"A", "E"}
    /\ \E row \in InjectedRows : row.DayOfWeek = "Tuesday" /\ row.IsWeekend = 0
    /\ \E row \in InjectedRows : row.HourOfDay = 10 /\ row.IsWeekend = 1

\* the roster: as many distinct identities as the per-role counts add up to,
\* each bound to the role at its own position
RosterSound ==
    /\ Len(users) = 86 + 166 + 15 + 21 + 12
    /\ Len(users) = 300
    /\ Cardinality({users[i] : i \in DOMAIN users}) = 300
    /\ DOMAIN user_role_map = {users[i] : i \in DOMAIN users}
    /\ \A i \in DOMAIN users : user_role_map[users[i]] = roles[i]
    /\ \A role \in {"Doctor", "Nurse", "Admin", "Receptionist", "Pharmacist"} :
          Cardinality({i \in DOMAIN roles : roles[i] = role}) =
              [Doctor |-> 86, Nurse |-> 166, Admin |-> 15, Receptionist |-> 21,
               Pharmacist |-> 12][role]

\* C6: the roster has 300 identities, one role each, and every row carries
\* the roster role of its UserID, that role's department and risk weight.
C6_RosterConsistency ==
    /\ RosterSound
    /\ \A row \in AllRows :
          /\ row.UserID \in DOMAIN user_role_map
          /\ row.UserRole = user_role_map[row.UserID]
          /\ row.Department = role_department[row.UserRole]
          /\ row.RoleRiskWeight = role_risk_weight[row.UserRole]

\* scenario C rows of a receptionist next to a sampled row
C6_Witness ==
    /\ JustInjected("C")
    /\ \E row \in InjectedRows : row.UserRole = "Receptionist" /\ row.Department = "Admin"
    /\ NUM_ROWS > 0

\* C7: the row scenario D appends is a Sunday 15:00 High-sensitivity Export
\* inside the window, flagged weekend and in-hours, scored weight*10 + 50.
C7_ScenarioDRow ==
    JustInjected("D") =>
        LET row == Target[Len(Target)]
            minute == row.Timestamp.ord * 1440 + row.Timestamp.min
        IN  /\ row.HourOfDay = 15
            /\ row.IsWeekend = 1
            /\ row.IsOffHours = 0
            /\ row.ActionType = "Export"
            /\ row.DataSensitivity = "High"
            /\ row.AccessRiskScore = role_risk_weight[user_role_map[row.UserID]] * 10 + 30 + 20
            /\ WeekdayFromAnchor(row.Timestamp) = "Sunday"
            /\ row.Timestamp.min = 15 * 60
            /\ minute >= START_DATE.ord * 1440 + START_DATE.min
            /\ minute < (START_DATE.ord + DAYS_SPAN) * 1440 + START_DATE.min

\* scenario D has acted on a one-day window
C7_Witness ==
    /\ JustInjected("D")
    /\ DAYS_SPAN = 1
    /\ Target[Len(Target)].UserRole # "Doctor"

\* frame `before` is an initial segment of frame `after`
IsPrefix(before, after) ==
    /\ Len(before) <= Len(after)
    /\ \A k \in DOMAIN before : after[k] = before[k]

InjectorStep == calls' # calls

\* C8 as stated: an injector call, B included, leaves every existing row of
\* every frame as it was and only appends.
C8_InjectorsOnlyAppend ==
    [][InjectorStep => IsPrefix(df, df') /\ IsPrefix(caller_df, caller_df')]_vars

\* the rows of `after` that differ from the row of `before` at their position
Changed(before, after) == {k \in DOMAIN before : after[k] # before[k]}

\* C8 amended: A, C, D and E only append after the existing rows; B appends
\* nothing and changes at most one existing row, a receptionist's, in its
\* AccessCountPerDay only, which becomes 500.
OnlyVolumeSet(before, after) ==
    /\ Len(after) = Len(before)
    /\ Cardinality(Changed(before, after)) <= 1
    /\ \A k \in Changed(before, after) :
          /\ after[k] = [before[k] EXCEPT !.AccessCountPerDay = 500]
          /\ before[k].UserRole = "Receptionist"

C8_AppendOrSetVolume ==
    [][InjectorStep =>
         IF calls'[Len(calls')].name = "B"
         THEN OnlyVolumeSet(df, df') /\ OnlyVolumeSet(caller_df, caller_df')
         ELSE IsPrefix(df, df') /\ IsPrefix(caller_df, caller_df')]_vars

\* scenario B has set a row's volume, and an appending injector ran before it
C8_Witness ==
    /\ JustInjected("B")
    /\ Len(calls) = 2
    /\ calls[1].name # "B"
    /\ \E row \in RowsIn(Target) : row.AccessCountPerDay = 500

\* C9: a run whose window is invalid (DAYS_SPAN <= 0) generates no row and
\* writes no file, whatever NUM_ROWS is.
C9_InvalidWindowAborts ==
    DAYS_SPAN <= 0 => ~written /\ rows = <<>> /\ pc # "done"

\* "A" followed by k in five digits, for k below 100000
FiveDigitId(k) ==
    <<"A", Digits[((k \div 10000) % 10) + 1], Digits[((k \div 1000) % 10) + 1],
      Digits[((k \div 100) % 10) + 1], Digits[((k \div 10) % 10) + 1],
      Digits[(k % 10) + 1]>>

Positional(frame) ==
    \A k \in DOMAIN frame :
        /\ Len(frame[k].AccessID) = 6
        /\ frame[k].AccessID =
              FiveDigitId(k)[1] \o FiveDigitId(k)[2] \o FiveDigitId(k)[3] \o
              FiveDigitId(k)[4] \o FiveDigitId(k)[5] \o FiveDigitId(k)[6]

\* C10: in every frame the row at position k has AccessID "A" and k in five
\* digits, so the ids of a frame are pairwise distinct.
C10_AccessIdsPositional ==
    /\ Positional(rows) /\ Positional(df) /\ Positional(caller_df)
    /\ \A frame \in {rows, df, caller_df} :
          \A j, k \in DOMAIN frame : j # k => frame[j].AccessID # frame[k].AccessID
====
